---- MODULE Spec2Model ----
(***************************************************************************)
(* Model of the active-set primal-Newton solver                            *)
(* OptimumSolverActNewton::Impl::solve                                     *)
(* (src/Reaktoro/Optimization/OptimumSolverActNewton.cpp).                 *)
(*                                                                         *)
(* Numbers.  A double is modelled as an extended rational <<num, den>>:    *)
(* den > 0 and gcd(num, den) = 1 for a finite value, <<1,0>> and <<-1,0>>  *)
(* for +inf and -inf, <<0,0>> for NaN.  The special values follow          *)
(* IEEE-754.  The finite values of the solver are dyadic rationals of a    *)
(* few bits, whose sums and products a double holds exactly.  A quotient   *)
(* is exact when its denominator is a power of two; the code rounds any    *)
(* other quotient to the nearest double, a value the pairs of integers of  *)
(* the model cannot hold, and Div has no value there: a solve that would   *)
(* compute such a quotient is followed up to that step and left at the     *)
(* position "rounded", about which the model says nothing.  There is one   *)
(* zero: a zero that is divided by is the +0.0 of the code.  One double    *)
(* below the range of the pairs is written with its exponent: <<1, -k>>    *)
(* is 2^(-k), a value whose square underflows (Tiny).  It is a starting    *)
(* multiplier only: the code tests its norm (line 227) and replaces it     *)
(* before any arithmetic on it, and the arithmetic of the model is not     *)
(* defined on it.  The temperatures of the ChemicalEditor are decimal      *)
(* numbers, kept as exact rationals where the code holds the nearest       *)
(* doubles.                                                                *)
(*                                                                         *)
(* Vectors are sequences of numbers, a matrix is a sequence of rows.  The  *)
(* index lists F and L hold the 0-based indices of the source, so that     *)
(* component i of a vector v is v[i + 1].                                  *)
(***************************************************************************)
EXTENDS Integers, Sequences, FiniteSets, TLC

----------------------------------------------------------------------------
(* Extended rational arithmetic (IEEE-754 double, without rounding) *)

NaN == <<0, 0>>

PInf == <<1, 0>>

NInf == <<-1, 0>>

AbsInt(k) == IF k < 0 THEN -k ELSE k

SignInt(k) == IF k < 0 THEN -1 ELSE IF k > 0 THEN 1 ELSE 0

RECURSIVE GCD(_, _)
GCD(a, b) == IF b = 0 THEN a ELSE GCD(b, a % b)

\* The number num/den in normal form.
Norm(num, den) ==
    IF den = 0 THEN <<SignInt(num), 0>>
    ELSE <<(SignInt(den) * num) \div GCD(AbsInt(num), AbsInt(den)),
           (SignInt(den) * den) \div GCD(AbsInt(num), AbsInt(den))>>

Rat(k) == <<k, 1>>

Zero == Rat(0)

One == Rat(1)

Half == Norm(1, 2)

IsFinite(a) == a[2] # 0

IsNaN(a) == a = NaN

Neg(a) == <<-a[1], a[2]>>

Add(a, b) ==
    IF IsFinite(a) /\ IsFinite(b) THEN Norm(a[1] * b[2] + b[1] * a[2], a[2] * b[2])
    ELSE IF IsNaN(a) \/ IsNaN(b) THEN NaN
    ELSE IF ~IsFinite(a) /\ ~IsFinite(b) THEN (IF a = b THEN a ELSE NaN)
    ELSE IF ~IsFinite(a) THEN a ELSE b

Sub(a, b) == Add(a, Neg(b))

Mul(a, b) ==
    IF IsFinite(a) /\ IsFinite(b) THEN Norm(a[1] * b[1], a[2] * b[2])
    ELSE IF IsNaN(a) \/ IsNaN(b) THEN NaN
    ELSE <<SignInt(a[1]) * SignInt(b[1]), 0>>

\* The denominators of the quotients that a double holds exactly.
PowersOfTwo == {2^k : k \in 0..30}

\* The quotient num/den rounded to the nearest double: itself when its
\* denominator is a power of two, and no value of the model otherwise.
RoundedQuotient(q) == CHOOSE d \in {q} : d[2] \in PowersOfTwo

\* The quotient a/b is one that a double holds exactly, or a special value.
ExactQuotient(a, b) ==
    \/ ~IsFinite(a)
    \/ ~IsFinite(b)
    \/ b[1] = 0
    \/ Norm(a[1] * b[2], a[2] * b[1])[2] \in PowersOfTwo

\* operator/ of double
Div(a, b) ==
    IF IsNaN(a) \/ IsNaN(b) THEN NaN
    ELSE IF ~IsFinite(b) THEN (IF IsFinite(a) THEN Zero ELSE NaN)
    ELSE IF ~IsFinite(a) THEN (IF b[1] < 0 THEN Neg(a) ELSE a)
    ELSE IF b[1] = 0 THEN <<SignInt(a[1]), 0>>
    ELSE RoundedQuotient(Norm(a[1] * b[2], a[2] * b[1]))

\* a < b ; false when either is NaN.
Less(a, b) ==
    IF IsNaN(a) \/ IsNaN(b) THEN FALSE
    ELSE IF IsFinite(a) /\ IsFinite(b) THEN a[1] * b[2] < b[1] * a[2]
    ELSE IF ~IsFinite(a) /\ ~IsFinite(b) THEN a[1] < b[1]
    ELSE IF ~IsFinite(a) THEN a[1] < 0
    ELSE b[1] > 0

\* a == b ; false when either is NaN.
Eq(a, b) == ~IsNaN(a) /\ ~IsNaN(b) /\ a = b

\* a > b
Greater(a, b) == Less(b, a)

\* a >= b
GreaterEq(a, b) == Less(b, a) \/ Eq(a, b)

\* a <= b
LessEq(a, b) == Less(a, b) \/ Eq(a, b)

\* std::abs
Abs(a) == <<AbsInt(a[1]), a[2]>>

\* std::max(a, b) == (a < b) ? b : a
Max(a, b) == IF Less(a, b) THEN b ELSE a

----------------------------------------------------------------------------
(* Vectors, matrices and index lists *)

\* zeros(k)
zeros(k) == [i \in 1..k |-> Zero]

\* rows(x, I): the components of x at the (0-based) indices listed in I.
rows(x, I) == [k \in 1..Len(I) |-> x[I[k] + 1]]

\* rows(x, I) = v: component I[k] of x becomes v[k], for k in increasing
\* order (the last assignment wins when I lists an index twice).
SetRows(x, I, v) ==
    [i \in 1..Len(x) |->
        IF \E k \in 1..Len(I) : I[k] + 1 = i
        THEN v[CHOOSE k \in 1..Len(I) :
                   I[k] + 1 = i /\ \A j \in 1..Len(I) : I[j] + 1 = i => j <= k]
        ELSE x[i]]

\* cols(A, I): the columns of the matrix A listed in I.
cols(A, I) == [r \in 1..Len(A) |-> rows(A[r], I)]

\* submatrix(M, I, J)
submatrix(M, I, J) == [r \in 1..Len(I) |-> rows(M[I[r] + 1], J)]

\* The sum of the entries of v, added from left to right, starting from acc.
RECURSIVE SumFrom(_, _)
SumFrom(acc, v) ==
    IF v = <<>> THEN acc ELSE SumFrom(Add(acc, Head(v)), Tail(v))

\* tr(B)*y for a matrix B with Len(y) rows and k columns.
TrMul(B, y, k) ==
    [j \in 1..k |-> SumFrom(Zero, [r \in 1..Len(B) |-> Mul(B[r][j], y[r])])]

\* a - b, a + b and s*a, component-wise.
VecSub(a, b) == [i \in 1..Len(a) |-> Sub(a[i], b[i])]

VecAdd(a, b) == [i \in 1..Len(a) |-> Add(a[i], b[i])]

VecScale(s, a) == [i \in 1..Len(a) |-> Mul(s, a[i])]

VecNeg(a) == [i \in 1..Len(a) |-> Neg(a[i])]

\* v.allFinite()
allFinite(v) == \A i \in 1..Len(v) : IsFinite(v[i])

\* The positive double 2^(-600), written with its exponent.
Tiny == <<1, -600>>

\* a*a == 0.0 in double arithmetic: a is zero, or a is 2^(-k) with a square
\* 2^(-2k) of at most half the smallest double 2^(-1074), which is rounded
\* to zero.  The square of a NaN is a NaN and the square of an infinite
\* value is infinite.
SquareIsZero(a) == IsFinite(a) /\ (a[1] = 0 \/ a[2] < -537)

\* y.norm() == 0.0 : the norm is the root of the sum of the squares of the
\* entries, computed in double arithmetic.  It is zero exactly when every
\* square is zero, which is the case for a zero entry and for an entry
\* whose square underflows (a NaN or infinite entry makes the norm
\* non-zero).
NormIsZero(y) == \A i \in 1..Len(y) : SquareIsZero(y[i])

\* The visitor behind v.minCoeff(&index): it starts from the first entry and
\* moves on to a later one only when that one is strictly smaller.  The
\* result is the 0-based position and the value.  v is not empty.
RECURSIVE MinVisit(_, _, _, _)
MinVisit(v, k, best, bestVal) ==
    IF k > Len(v) THEN [index |-> best, value |-> bestVal]
    ELSE IF Less(v[k], bestVal) THEN MinVisit(v, k + 1, k - 1, v[k])
    ELSE MinVisit(v, k + 1, best, bestVal)

minCoeff(v) == MinVisit(v, 2, 0, v[1])

\* norminf(v): the largest absolute entry, 0 for an empty vector.  The fold
\* keeps the accumulator unless it is strictly smaller than the next entry.
RECURSIVE MaxAbsFrom(_, _)
MaxAbsFrom(acc, v) ==
    IF v = <<>> THEN acc ELSE MaxAbsFrom(Max(acc, Abs(Head(v))), Tail(v))

norminf(v) == IF v = <<>> THEN Zero ELSE MaxAbsFrom(Abs(Head(v)), Tail(v))

\* The removal that moves the last entry to position i, in place of the
\* compaction of erase.
eraseSwap(x, i) ==
    [k \in 1..(Len(x) - 1) |-> IF k = i + 1 THEN x[Len(x)] ELSE x[k]]

\* erase(x, i): remove the entry at the 0-based position i; the entries
\* behind it move one place to the front.
erase(x, i) ==
    [k \in 1..(Len(x) - 1) |-> IF k < i + 1 THEN x[k] ELSE x[k + 1]]

\* One row of multiKahanSum: the compensated sum of A(i,j)*x[j] over j.
\* y is A(i,j)*x[j] - c; t = res + y becomes the sum and (t - res) - y the
\* compensation.
RECURSIVE KahanRow(_, _, _, _, _)
KahanStep(row, x, j, res, y) ==
    KahanRow(row, x, j + 1, Add(res, y), Sub(Sub(Add(res, y), res), y))

KahanRow(row, x, j, res, c) ==
    IF j > Len(row) THEN res
    ELSE KahanStep(row, x, j, res, Sub(Mul(row[j], x[j]), c))

\* multiKahanSum(A, x, res): res = A*x
multiKahanSum(A, x) == [i \in 1..Len(A) |-> KahanRow(A[i], x, 1, Zero, Zero)]

\* The elements of the sequence s.
Range(s) == {s[k] : k \in 1..Len(s)}

\* The sequence s has no element twice.
NoDuplicates(s) == \A j, k \in 1..Len(s) : s[j] = s[k] => j = k

----------------------------------------------------------------------------
(* The optimization problem, its objective and the steps of the solver *)

\* The tags of a Hessian (Hessian::Mode).
HessianModes == {"Dense", "Diagonal", "Inverse"}

\* diag(d): the square matrix with diagonal d.
diag(d) == [r \in 1..Len(d) |-> [k \in 1..Len(d) |-> IF r = k THEN d[r] ELSE Zero]]

\* problem.objective(x) for the objectives of the model, the separable
\* quadratics  f(x) = sum_i c[i]*x[i] + hd[i]*x[i]^2/2  with a Hessian tagged
\* obj.mode.  An objective with a pole (obj.pole is not NaN) returns a NaN in
\* the first component of its gradient when x[0] is at the pole.  An
\* objective with a pole of its second derivative (obj.hpole is not NaN)
\* returns a NaN in the first diagonal entry of its Hessian when x[0] is at
\* that pole, with a finite value and a finite gradient.  The objective
\* does not depend on the components of x behind the last coefficient of
\* obj.c: they add nothing to the value and have a zero in the gradient.
ObjectiveTerm(obj, x0, i) ==
    IF i > Len(obj.c) THEN Zero
    ELSE Add(Mul(obj.c[i], x0[i]), Div(Mul(obj.hd[i], Mul(x0[i], x0[i])), Rat(2)))

HessianEntries(obj, x0) ==
    [i \in 1..Len(obj.hd) |->
        IF i = 1 /\ Len(x0) >= 1 /\ Eq(x0[1], obj.hpole) THEN NaN ELSE obj.hd[i]]

CallerObjective(obj, x0) ==
    [val  |-> SumFrom(Zero, [i \in 1..Len(x0) |-> ObjectiveTerm(obj, x0, i)]),
     grad |-> [i \in 1..Len(x0) |->
                 IF i = 1 /\ Eq(x0[1], obj.pole) THEN NaN
                 ELSE IF i > Len(obj.c) THEN Zero
                 ELSE Add(obj.c[i], Mul(obj.hd[i], x0[i]))],
     hessian |-> [mode     |-> obj.mode,
                  dense    |-> IF obj.mode = "Dense"
                               THEN diag(HessianEntries(obj, x0)) ELSE <<>>,
                  diagonal |-> IF obj.mode = "Diagonal"
                               THEN HessianEntries(obj, x0) ELSE <<>>]]

\* The vector x left as it is, in place of the clamping of line 136.
ClampNone(x, l) == x

\* x.noalias() = (x.array() > l.array()).select(x, l), over the components
\* of x.
Clamp(x, l) == [i \in 1..Len(x) |-> IF Greater(x[i], l[i]) THEN x[i] ELSE l[i]]

\* sqrt of a number of the model; the finite arguments are squares of
\* rationals.
IntSqrt(k) == CHOOSE r \in 0..k : r * r = k

Sqrt(a) ==
    IF IsNaN(a) \/ Less(a, Zero) THEN NaN
    ELSE IF ~IsFinite(a) THEN a
    ELSE Norm(IntSqrt(a[1]), IntSqrt(a[2]))

\* Lines 465-467: D = 1/sqrt(max(state.x, l)) by component.
RegularizationD(x0, l) == [i \in 1..Len(x0) |-> Div(One, Sqrt(Clamp(x0, l)[i]))]

\* Line 470.
rho == Zero

\* Lines 472-479: the objective of regproblem.  D is the vector captured by
\* the lambda; the Hessians of the wrapped objectives are Diagonal.
regobjective(obj, x0) ==
    [val  |-> Add(CallerObjective(obj, x0).val,
                  Mul(Mul(Half, rho),
                      SumFrom(Zero, [i \in 1..Len(x0) |->
                                        Mul(Mul(obj.D[i], x0[i]), Mul(obj.D[i], x0[i]))]))),
     grad |-> [i \in 1..Len(x0) |->
                 Add(CallerObjective(obj, x0).grad[i],
                     Mul(rho, Mul(Mul(obj.D[i], obj.D[i]), x0[i])))],
     hessian |-> [mode     |-> obj.mode,
                  dense    |-> CallerObjective(obj, x0).hessian.dense,
                  diagonal |-> [i \in 1..Len(x0) |->
                                   Add(CallerObjective(obj, x0).hessian.diagonal[i],
                                       Mul(rho, Mul(obj.D[i], obj.D[i])))]]]

\* problem.objective(x) at line 222: the objective of the caller when solve
\* of Impl is called with the problem of the caller (obj.D is empty), the
\* objective of regproblem when it is called by the public solve.
Objective(obj, x0) ==
    IF obj.D = <<>> THEN CallerObjective(obj, x0) ELSE regobjective(obj, x0)

\* The loop that initializes the index lists: index i is appended to L when
\* x[i] == l[i] and to F otherwise.  i0 is the next index, n their number.
RECURSIVE InitPartition(_, _, _, _, _, _)
InitPartition(x, l, i0, n, F0, L0) ==
    IF i0 >= n THEN [F |-> F0, L |-> L0]
    ELSE IF Eq(x[i0 + 1], l[i0 + 1])
         THEN InitPartition(x, l, i0 + 1, n, F0, Append(L0, i0))
         ELSE InitPartition(x, l, i0 + 1, n, Append(F0, i0), L0)

\* The 0-based position of the first entry of largest absolute value in the
\* non-empty vector a (the pivot search of a full-pivoting factorization).
RECURSIVE MaxAbsVisit(_, _, _)
MaxAbsVisit(a, k, best) ==
    IF k > Len(a) THEN best
    ELSE IF Greater(Abs(a[k]), Abs(a[best + 1])) THEN MaxAbsVisit(a, k + 1, k - 1)
    ELSE MaxAbsVisit(a, k + 1, best)

\* tr(AF).fullPivLu().solve(gF) for a matrix AF with one row: the system
\* AF[0][k]*y = gF[k] is solved at the pivot, and y is zero when AF has rank
\* zero (no column, or only zeros).
FullPivLuSolve(AFm, g) ==
    IF AFm[1] = <<>> THEN zeros(Len(AFm))
    ELSE IF Eq(AFm[1][MaxAbsVisit(AFm[1], 2, 0) + 1], Zero) THEN zeros(Len(AFm))
    ELSE <<Div(g[MaxAbsVisit(AFm[1], 2, 0) + 1], AFm[1][MaxAbsVisit(AFm[1], 2, 0) + 1])>>

\* update_state, lines 219-220: the free variables take their values from
\* xF and the pinned variables are put on their lower bounds.
WriteBackZeros(x0, F0, xF0, L0, l) == SetRows(SetRows(x0, F0, xF0), L0, zeros(Len(L0)))

WriteBack(x0, F0, xF0, L0, l) == SetRows(SetRows(x0, F0, xF0), L0, rows(l, L0))

\* update_state, lines 239-253: the pinned variable with the most negative
\* multiplier, if there is a negative one, is moved from L to the end of F
\* and enters xF at its lower bound.
ReleaseFirst(l, F0, L0, xF0, zL0) ==
    IF Len(L0) > 0 /\ Less(minCoeff(zL0).value, Zero)
    THEN [F  |-> Append(F0, L0[1]),
          L  |-> erase(L0, 0),
          xF |-> [k \in 1..(Len(F0) + 1) |->
                     IF k = Len(F0) + 1 THEN l[L0[1] + 1] ELSE xF0[k]]]
    ELSE [F |-> F0, L |-> L0, xF |-> xF0]

Release(l, F0, L0, xF0, zL0) ==
    IF Len(L0) > 0 /\ Less(minCoeff(zL0).value, Zero)
    THEN [F  |-> Append(F0, L0[minCoeff(zL0).index + 1]),
          L  |-> erase(L0, minCoeff(zL0).index),
          \* xF.conservativeResize(F.size()); xF[F.size()-1] = l[F.back()]
          xF |-> [k \in 1..(Len(F0) + 1) |->
                     IF k = Len(F0) + 1 THEN l[L0[minCoeff(zL0).index + 1] + 1]
                     ELSE xF0[k]]]
    ELSE [F |-> F0, L |-> L0, xF |-> xF0]

\* update_state, lines 257-269: the Hessian of the free variables.
HessianOfFree(hessian, F0) ==
    [mode     |-> hessian.mode,
     dense    |-> IF hessian.mode = "Dense" THEN submatrix(hessian.dense, F0, F0) ELSE <<>>,
     diagonal |-> IF hessian.mode = "Diagonal" THEN rows(hessian.diagonal, F0) ELSE <<>>]

\* update_state, lines 259-269: the tags the switch has no case for.
UnsupportedHessianNone(mode) == FALSE

UnsupportedHessian(mode) == mode \notin {"Dense", "Diagonal"}

\* update_state_failed
update_state_failed(f0) == ~(IsFinite(f0.val) /\ allFinite(f0.grad))

\* compute_newton_step: the right-hand side of the KKT equation.
KktRhs(gF0, AF0, y0, h0, nF) ==
    [rx |-> VecNeg(VecSub(gF0, TrMul(AF0, y0, nF))),
     ry |-> VecNeg(h0),
     rz |-> zeros(nF)]

\* compute_newton_step_failed
compute_newton_step_failedDx(s) == ~allFinite(s.dx)

compute_newton_step_failed(s) ==
    ~(allFinite(s.dx) /\ allFinite(s.dy) /\ allFinite(s.dz))

\* The step -tau*p[i]/dp[i] at which component i reaches zero.
TrialStep(p, dp, tau, i) == Div(Mul(Neg(tau), p[i]), dp[i])

\* The components that move towards zero.
Decreasing(dp) == {i \in 1..Len(dp) : Less(dp[i], Zero)}

\* The quotients of the line search are exact.
StepExact(p, dp, tau) ==
    \A i \in Decreasing(dp) : ExactQuotient(Mul(Neg(tau), p[i]), dp[i])

\* The step length of fractionToTheBoundary.
LargestStep(p, dp, tau) ==
    IF \E i \in Decreasing(dp) : Less(TrialStep(p, dp, tau, i), One)
    THEN TrialStep(p, dp, tau,
                   CHOOSE i \in Decreasing(dp) :
                       \A j \in Decreasing(dp) :
                           ~Less(TrialStep(p, dp, tau, j), TrialStep(p, dp, tau, i)))
    ELSE One

\* The components that reach zero exactly at the step a.
Limiting(p, dp, tau, a) == {i \in Decreasing(dp) : Eq(TrialStep(p, dp, tau, i), a)}

\* fractionToTheBoundary(p, dp, tau, ilimiting): the largest step alpha, at
\* most 1, for which p + alpha*dp stays non-negative when the step is
\* shortened by the factor tau, and the 0-based position of the first
\* component that reaches zero exactly at that alpha (Len(p) when there is
\* none).
fractionToTheBoundary(p, dp, tau) ==
    [alpha |-> LargestStep(p, dp, tau),
     ilimiting |->
        IF Limiting(p, dp, tau, LargestStep(p, dp, tau)) = {} THEN Len(p)
        ELSE (CHOOSE i \in Limiting(p, dp, tau, LargestStep(p, dp, tau)) :
                 \A j \in Limiting(p, dp, tau, LargestStep(p, dp, tau)) : i <= j) - 1]

\* update_iterates, lines 316-317: the distances xF - lF of the free
\* variables to their bounds, which the line search keeps non-negative.
DistanceFromZero(xF0, l, F0) == xF0

DistanceToBound(xF0, l, F0) == VecSub(xF0, rows(l, F0))

\* update_iterates, lines 328-336: the limiting variable, if there is one,
\* is moved from F to the end of L and leaves xF.
PinKeepsInF(F0, L0, xF0, ilim) ==
    IF ilim < Len(F0)
    THEN [F |-> F0, L |-> Append(L0, F0[ilim + 1]), xF |-> xF0]
    ELSE [F |-> F0, L |-> L0, xF |-> xF0]

PinFront(F0, L0, xF0, ilim) ==
    IF ilim < Len(F0)
    THEN [F |-> erase(F0, ilim), L |-> <<F0[ilim + 1]>> \o L0, xF |-> erase(xF0, ilim)]
    ELSE [F |-> F0, L |-> L0, xF |-> xF0]

Pin(F0, L0, xF0, ilim) ==
    IF ilim < Len(F0)
    THEN [F |-> erase(F0, ilim), L |-> Append(L0, F0[ilim + 1]), xF |-> erase(xF0, ilim)]
    ELSE [F |-> F0, L |-> L0, xF |-> xF0]

\* update_errors: errorf and errorh.
OptimalityError(gF0, AF0, y0, nF) == norminf(VecSub(gF0, TrMul(AF0, y0, nF)))

\* errorh taken as zero, in place of line 373.
FeasibilityErrorNone(h0) == Zero

FeasibilityError(h0) == norminf(h0)

\* converged
convergedLessEq(err, tolerance) == LessEq(err, tolerance)

converged(err, tolerance) == Less(err, tolerance)

----------------------------------------------------------------------------
(* The inputs of the model *)

\* The number of variables of the problems (the columns of A).
NumVars == 2

\* The largest value of options.max_iterations.
MaxIterationsCap == 2

\* The constraint matrices A: one row, with a first entry of 1.
AMatrices == {<<row>> : row \in {r \in [1..NumVars -> {Rat(1), Rat(2)}] : r[1] = Rat(1)}}

\* The lower bounds l.
LVecs == {zeros(NumVars), [i \in 1..NumVars |-> IF i = 1 THEN Rat(1) ELSE Zero]}

\* The values of the components of the starting point state.x.
XVals == {Rat(0), Rat(2)}

\* The starting multipliers state.y; the first one is not sized and the
\* last one has a norm that underflows to zero.
YVecs == {<<>>, <<Rat(0)>>, <<Rat(1)>>, <<Tiny>>}

\* The linear coefficients of the objectives.
CVals == {Rat(-1), Rat(1)}

\* The poles of the objectives (NaN: the objective has no pole).
PoleVals == {NaN, Rat(1)}

\* The values of options.tolerance.
TolVals == {Rat(1)}

\* The components of the directions dx and dy returned by the KKT solver.
DxVals == {Rat(-2), Rat(-1), Rat(1)}

DyVals == {Rat(-1), Rat(1)}

\* The objectives with a Diagonal Hessian, and one objective for each of the
\* other two tags.
Objectives ==
    [c : [1..NumVars -> CVals], hd : {[i \in 1..NumVars |-> One]},
     mode : {"Diagonal"}, pole : PoleVals, hpole : {NaN}, D : {<<>>}]
    \cup
    [c : {[i \in 1..NumVars |-> Rat(-1)]}, hd : {[i \in 1..NumVars |-> One]},
     mode : {"Dense", "Inverse"}, pole : {NaN}, hpole : {NaN}, D : {<<>>}]

\* The problems whose sizes agree, and two problems whose sizes do not: a
\* vector b longer than A has rows, a vector l longer than A has columns.
Problems ==
    [A : AMatrices, b : {<<Rat(1)>>}, l : LVecs, objective : Objectives]
    \cup
    [A : {<<[i \in 1..NumVars |-> One]>>},
     b : {<<Rat(1), Rat(1)>>},
     l : {zeros(NumVars)},
     objective : {[c |-> [i \in 1..NumVars |-> Rat(-1)], hd |-> [i \in 1..NumVars |-> One],
                   mode |-> "Diagonal", pole |-> NaN, hpole |-> NaN, D |-> <<>>]}]
    \cup
    [A : {<<[i \in 1..NumVars |-> One]>>},
     b : {<<Rat(1)>>},
     l : {zeros(NumVars + 1)},
     objective : {[c |-> [i \in 1..NumVars |-> Rat(-1)], hd |-> [i \in 1..NumVars |-> One],
                   mode |-> "Diagonal", pole |-> NaN, hpole |-> NaN, D |-> <<>>]}]

\* The problems and the states of the solves with the exact KKT solver: the
\* starting points include the minimizers of the problems (x = (1/2, 1/2)
\* with y = -1/2 for b = 1, x = (1, 1) with y = 0 for b = 2, when A = (1 1),
\* c = (-1, -1) and l = 0) and points close to them.
XValsNewton == {Rat(0), Half, Rat(1), Rat(2)}

YVecsNewton == {<<>>, <<Rat(0)>>, <<Rat(1)>>, <<Neg(Half)>>}

ProblemsNewton ==
    Problems \cup
    [A : AMatrices, b : {<<Rat(2)>>}, l : LVecs, objective : Objectives]

StartXNewton == [1..NumVars -> XValsNewton] \cup {<<>>}

\* The problems and the starting points of two calls of solve on one solver
\* object: the sizes agree and the objectives have a Diagonal Hessian and no
\* pole.
ProblemsReuse ==
    {p \in Problems : /\ Len(p.l) = Len(p.A[1])
                      /\ Len(p.b) = Len(p.A)
                      /\ p.objective.mode = "Diagonal"
                      /\ IsNaN(p.objective.pole)
                      /\ p.objective.c[1] = p.objective.c[2]}

StartXReuse == [1..NumVars -> XVals]

\* The value of options.max_iterations in the solves of convex problems.
MaxIterationsConvex == 4

\* The strictly convex problems: a Hessian diag(1, 1), tagged Diagonal or
\* Dense, a matrix A of full row rank, and sizes that agree.
ObjectivesConvex ==
    [c : [1..NumVars -> {Rat(-2), Rat(-1), Rat(0), Rat(1), Rat(2)}],
     hd : {[i \in 1..NumVars |-> One]},
     mode : {"Diagonal", "Dense"}, pole : {NaN}, hpole : {NaN}, D : {<<>>}]

ProblemsConvex ==
    [A : AMatrices, b : {<<Rat(1)>>, <<Rat(2)>>, <<Rat(3)>>, <<Rat(4)>>}, l : LVecs,
     objective : ObjectivesConvex]

\* x0 is a strictly interior feasible point of the problem p: x0 > l and
\* A*x0 = b.
FeasibleInterior(p, x0) ==
    /\ \A i \in 1..Len(x0) : Greater(x0[i], p.l[i])
    /\ \A r \in 1..Len(p.A) :
           Eq(SumFrom(Zero, [k \in 1..Len(x0) |-> Mul(p.A[r][k], x0[k])]), p.b[r])

OptionsConvex == {[tolerance |-> Norm(1, 8), max_iterations |-> MaxIterationsConvex]}

\* The state passed to solve: x is sized or empty, y is sized or empty.
StartX == [1..NumVars -> XVals] \cup {<<>>}

Options == [tolerance : TolVals, max_iterations : 0..MaxIterationsCap]

\* The solutions kkt.solve(rhs, sol) can return for nF free variables and m
\* constraints: any finite direction, or a non-finite one (a singular
\* system); only a non-finite one when the right-hand side is not finite.
NonFiniteSolution(nF, m) ==
    [dx |-> [k \in 1..nF |-> NaN], dy |-> [k \in 1..m |-> NaN], dz |-> [k \in 1..nF |-> NaN]]

KktSolutions(r, nF, m) ==
    IF allFinite(r.rx) /\ allFinite(r.ry) /\ allFinite(r.rz)
    THEN [dx : [1..nF -> DxVals], dy : [1..m -> DyVals], dz : {zeros(nF)}]
         \cup {NonFiniteSolution(nF, m)}
    ELSE {NonFiniteSolution(nF, m)}

\* The diagonal of the Hessian block HF.  The Dense Hessians of the model
\* are diagonal matrices.
HessianDiagonal(H) ==
    IF H.mode = "Diagonal" THEN H.diagonal
    ELSE [k \in 1..Len(H.dense) |-> H.dense[k][k]]

\* The solution of the KKT equation
\*     H*dx - tr(A)*dy = rx,   A*dx = ry
\* for a diagonal H = diag(hF) and a matrix A with the one row aF:
\*     dy = (ry - sum_k aF[k]*rx[k]/hF[k]) / (sum_k aF[k]^2/hF[k]),
\*     dx[k] = (rx[k] + aF[k]*dy) / hF[k].
\* The signs are those of the caller, which measures the optimality residual
\* as gF - tr(AF)*y and adds alpha*dy to y (lines 290, 323 and 372).  A
\* system without free variables is singular, and the division by zero
\* leaves a dy that is not finite.
KktDy(hF, aF, r) ==
    Div(Sub(r.ry[1], SumFrom(Zero, [k \in 1..Len(aF) |-> Div(Mul(aF[k], r.rx[k]), hF[k])])),
        SumFrom(Zero, [k \in 1..Len(aF) |-> Div(Mul(aF[k], aF[k]), hF[k])]))

\* The quotients of KktDy and KktSolve are exact.
KktExact(hF, aF, r) ==
    /\ \A k \in 1..Len(aF) :
           /\ ExactQuotient(Mul(aF[k], r.rx[k]), hF[k])
           /\ ExactQuotient(Mul(aF[k], aF[k]), hF[k])
    /\ ExactQuotient(
           Sub(r.ry[1], SumFrom(Zero, [k \in 1..Len(aF) |-> Div(Mul(aF[k], r.rx[k]), hF[k])])),
           SumFrom(Zero, [k \in 1..Len(aF) |-> Div(Mul(aF[k], aF[k]), hF[k])]))
    /\ \A k \in 1..Len(aF) :
           ExactQuotient(Add(r.rx[k], Mul(aF[k], KktDy(hF, aF, r))), hF[k])

KktSolve(H, AF0, r) ==
    [dx |-> [k \in 1..Len(AF0[1]) |->
               Div(Add(r.rx[k], Mul(AF0[1][k], KktDy(HessianDiagonal(H), AF0[1], r))),
                   HessianDiagonal(H)[k])],
     dy |-> <<KktDy(HessianDiagonal(H), AF0[1], r)>>,
     dz |-> zeros(Len(AF0[1]))]

----------------------------------------------------------------------------
(* The state of one solve on a freshly constructed solver *)

\* ---------------------------------------------------------------------
\* ChemicalEditor: the interpolation points (ChemicalEditor.cpp).

\* 273.15, the shift between celsius and kelvin (line 72).
KelvinShift == Norm(27315, 100)

\* Line 68: the default temperatures, in celsius.
DefaultTemperatures ==
    <<Rat(0), Rat(25), Rat(50), Rat(75), Rat(100), Rat(125), Rat(150),
      Rat(175), Rat(200), Rat(225), Rat(250), Rat(275), Rat(300)>>

\* Line 71: the default pressures, in bar.
DefaultPressures ==
    <<Rat(1), Rat(25), Rat(50), Rat(100), Rat(150), Rat(200), Rat(250),
      Rat(300), Rat(350), Rat(400), Rat(450), Rat(500), Rat(550), Rat(600)>>

\* The units the conversions below accept.
TemperatureUnits == {"kelvin", "celsius", "fahrenheit"}
PressureUnits == {"pascal", "bar"}

\* units::convert on one value: a temperature goes through kelvin, a
\* pressure through pascal.
ToKelvin(v, from) ==
    CASE from = "kelvin" -> v
      [] from = "celsius" -> Add(v, KelvinShift)
      [] from = "fahrenheit" ->
            Add(Mul(Sub(v, Rat(32)), Norm(5, 9)), KelvinShift)

FromKelvin(k, to) ==
    CASE to = "kelvin" -> k
      [] to = "celsius" -> Sub(k, KelvinShift)
      [] to = "fahrenheit" ->
            Add(Mul(Sub(k, KelvinShift), Norm(9, 5)), Rat(32))

ToPascal(v, from) ==
    CASE from = "pascal" -> v
      [] from = "bar" -> Mul(v, Rat(100000))

FromPascal(v, to) ==
    CASE to = "pascal" -> v
      [] to = "bar" -> Div(v, Rat(100000))

convert(v, from, to) ==
    IF from \in TemperatureUnits
    THEN FromKelvin(ToKelvin(v, from), to)
    ELSE FromPascal(ToPascal(v, from), to)

\* Lines 62-74: the constructor of ChemicalEditor::Impl.
EditorImpl ==
    [temperatures |-> [k \in 1..Len(DefaultTemperatures) |->
                          Add(DefaultTemperatures[k], KelvinShift)],
     pressures |-> [k \in 1..Len(DefaultPressures) |->
                       Mul(DefaultPressures[k], Rat(100000))]]

\* Lines 76-80: setTemperatures.
setTemperatures(values, units) ==
    [k \in 1..Len(values) |-> convert(values[k], units, "celsius")]

\* Lines 82-86: setPressures.
setPressures(values, units) ==
    [k \in 1..Len(values) |-> convert(values[k], units, "pascal")]

VARIABLES
    problem,      \* the OptimumProblem: A, b, l, objective
    options,      \* the OptimumOptions: tolerance, max_iterations
    x, y, z, f,   \* the OptimumState: state.x, state.y, state.z, state.f
    result,       \* the OptimumResult: succeeded, iterations, error
    F, L,         \* Impl::F, Impl::L
    xF, gF, gL, zL, AF, AL, HF,   \* the working vectors and matrices of Impl
    rhs, sol,     \* Impl::rhs, Impl::sol
    h,            \* the residual A*x - b
    alpha,        \* the step length
    ilimiting,    \* the limiting position found by the last line search
    errorf, errorh, error,
    pc,           \* the position in solve
    exitBy,       \* how the main loop was left
    evaluations,  \* the number of calls of problem.objective
    error0,       \* max(errorf, errorh) of the state the loop starts from
    newtonSteps,  \* the number of calls of compute_newton_step
    lsqInits,     \* the number of least-squares initializations of y
    active,       \* the solver object whose solve the variables above hold
    pimpl,        \* the Impl each solver object points to (0: no such object)
    impls,        \* the Impl objects, as they were when last left
    suspended,    \* the solve call of the other solver object
    expected,     \* the Impl each solver object had when it was last left
    temperatures, \* ChemicalEditor::Impl::temperatures
    pressures,    \* ChemicalEditor::Impl::pressures
    requested     \* the values and units last given for the temperatures

\* The solver objects and their Impl objects.
solvers == <<active, pimpl, impls, suspended, expected>>

\* The interpolation points of the ChemicalEditor.
editor == <<temperatures, pressures, requested>>

vars == <<problem, options, x, y, z, f, result, F, L, xF, gF, gL, zL, AF, AL,
          HF, rhs, sol, h, alpha, ilimiting, errorf, errorh, error, pc, exitBy,
          evaluations, error0, newtonSteps, lsqInits, solvers, editor>>

\* The number of variables and of equality constraints.
n == Len(problem.A[1])

m == Len(problem.A)

\* The members of a freshly constructed Impl, the state.z and state.f of the
\* caller and the OptimumResult solve starts with.
InitLocals ==
    /\ z = zeros(Len(problem.A[1]))
    /\ f = [val |-> Zero, grad |-> <<>>,
            hessian |-> [mode |-> "Dense", dense |-> <<>>, diagonal |-> <<>>]]
    /\ result = [succeeded |-> FALSE, iterations |-> 0, error |-> Zero]
    /\ F = <<>> /\ L = <<>>
    /\ xF = <<>> /\ gF = <<>> /\ gL = <<>> /\ zL = <<>>
    /\ AF = <<>> /\ AL = <<>>
    /\ HF = [mode |-> "Dense", dense |-> <<>>, diagonal |-> <<>>]
    /\ rhs = [rx |-> <<>>, ry |-> <<>>, rz |-> <<>>]
    /\ sol = [dx |-> <<>>, dy |-> <<>>, dz |-> <<>>]
    /\ h = <<>>
    /\ alpha = Zero /\ ilimiting = 0
    /\ errorf = Zero /\ errorh = Zero /\ error = Zero
    /\ exitBy = "none"
    /\ evaluations = 0
    /\ error0 = Zero
    /\ newtonSteps = 0
    /\ lsqInits = 0
    /\ active = 1
    /\ pimpl = <<1, 0>>
    /\ impls = <<>>
    /\ suspended = <<>>
    /\ expected = <<>>
    /\ temperatures = EditorImpl.temperatures
    /\ pressures = EditorImpl.pressures
    /\ requested = [values |-> DefaultTemperatures, units |-> "celsius"]

InitWorkspace == InitLocals /\ pc = "start"

Init ==
    /\ problem \in Problems
    /\ options \in Options
    /\ x \in StartX
    /\ y \in YVecs
    /\ InitWorkspace

InitNewton ==
    /\ problem \in ProblemsNewton
    /\ options \in Options
    /\ x \in StartXNewton
    /\ y \in YVecsNewton
    /\ InitWorkspace

\* Lines 134-149: x is sized and clamped, y is sized, F and L are filled and
\* AF, AL and xF are taken from them.  A state.x of another size than n is
\* resized, which leaves its values unspecified.
Initialize ==
    /\ pc = "start"
    /\ Len(problem.l) = n
    /\ \E xs \in (IF Len(x) = n THEN {x} ELSE [1..n -> XVals]) :
           x' = Clamp(xs, problem.l)
    /\ y' = IF Len(y) # m THEN zeros(m) ELSE y
    /\ F' = InitPartition(x', problem.l, 0, n, F, L).F
    /\ L' = InitPartition(x', problem.l, 0, n, F, L).L
    /\ AF' = cols(problem.A, F')
    /\ AL' = cols(problem.A, L')
    /\ xF' = rows(x', F')
    /\ pc' = "update_state"
    /\ UNCHANGED <<problem, options, z, f, result, gF, gL, zL, HF, rhs, sol, h,
                   alpha, ilimiting, errorf, errorh, error, exitBy, evaluations,
                   error0, newtonSteps>>
    /\ UNCHANGED <<lsqInits, solvers, editor>>

\* Line 136 with a vector l of another size than n: the comparison of x and l
\* is undefined.  The build either stops in the size check of the vector
\* library, after the resize of line 135 gave x its n entries, or takes the
\* size of the comparison from x and goes on with the n first bounds, or
\* takes it from l: the assignment then resizes x to the size of l, which
\* leaves none of its values, and selects from the new storage.  The loop of
\* lines 142-144 runs over the n first components in each case (the vector
\* l of the model is the longer one).
InitializeSizeMismatch ==
    /\ pc = "start"
    /\ Len(problem.l) # n
    /\ \/ /\ \E xs \in (IF Len(x) = n THEN {x} ELSE [1..n -> XVals]) : x' = xs
          /\ pc' = "aborted"
          /\ UNCHANGED <<y, F, L, xF, AF, AL>>
       \/ /\ \E xs \in (IF Len(x) = n THEN {x} ELSE [1..n -> XVals]) :
                 x' = Clamp(xs, problem.l)
          /\ y' = IF Len(y) # m THEN zeros(m) ELSE y
          /\ F' = InitPartition(x', problem.l, 0, n, F, L).F
          /\ L' = InitPartition(x', problem.l, 0, n, F, L).L
          /\ AF' = cols(problem.A, F')
          /\ AL' = cols(problem.A, L')
          /\ xF' = rows(x', F')
          /\ pc' = "update_state"
       \/ /\ Len(problem.l) > n
          /\ \E xs \in [1..Len(problem.l) -> XVals] : x' = Clamp(xs, problem.l)
          /\ y' = IF Len(y) # m THEN zeros(m) ELSE y
          /\ F' = InitPartition(x', problem.l, 0, n, F, L).F
          /\ L' = InitPartition(x', problem.l, 0, n, F, L).L
          /\ AF' = cols(problem.A, F')
          /\ AL' = cols(problem.A, L')
          /\ xF' = rows(x', F')
          /\ pc' = "update_state"
    /\ UNCHANGED <<problem, options, z, f, result, gF, gL, zL, HF, rhs, sol, h,
                   alpha, ilimiting, errorf, errorh, error, exitBy, evaluations,
                   error0, newtonSteps>>
    /\ UNCHANGED <<lsqInits, solvers, editor>>

\* update_state, lines 217-270, up to the switch on the Hessian tag.
UpdateStateBody ==
    /\ x' = WriteBack(x, F, xF, L, problem.l)
    /\ f' = Objective(problem.objective, x')
    /\ evaluations' = evaluations + 1
    /\ h' = VecSub(multiKahanSum(problem.A, x'), problem.b)
    /\ y' = IF NormIsZero(y) THEN FullPivLuSolve(AF, rows(f'.grad, F)) ELSE y
    /\ lsqInits' = IF NormIsZero(y) THEN lsqInits + 1 ELSE lsqInits
    /\ gL' = rows(f'.grad, L)
    /\ zL' = VecSub(gL', TrMul(AL, y', Len(L)))
    /\ z' = SetRows(z, L, zL')
    /\ F' = Release(problem.l, F, L, xF, zL').F
    /\ L' = Release(problem.l, F, L, xF, zL').L
    /\ xF' = Release(problem.l, F, L, xF, zL').xF
    /\ AF' = cols(problem.A, F')
    /\ AL' = cols(problem.A, L')
    /\ gF' = rows(f'.grad, F')
    /\ HF' = HessianOfFree(f'.hessian, F')
    /\ error0' = IF result.iterations = 0
                 THEN Max(OptimalityError(gF', AF', y', Len(F')), FeasibilityError(h'))
                 ELSE error0

\* Lines 390 and 400: update_state, before the loop and in each iteration.
\* A Hessian tag that is neither Dense nor Diagonal raises the error of line
\* 267.
UpdateState ==
    /\ pc = "update_state"
    /\ Len(problem.b) = m
    /\ UpdateStateBody
    /\ pc' = IF UnsupportedHessian(f'.hessian.mode) THEN "raised"
             ELSE IF result.iterations = 0 THEN "loop"
             ELSE "finish_iteration"
    /\ UNCHANGED <<problem, options, result, rhs, sol, alpha, ilimiting,
                   errorf, errorh, error, exitBy, newtonSteps>>
    /\ UNCHANGED <<solvers, editor>>

\* Line 225 with a vector b of another size than m:  h -= b  is undefined.
\* The build either stops in the size check of the vector library, after
\* lines 219-224 wrote x back, called the objective and summed A*x into h,
\* or subtracts the m first entries of b and goes on.
UpdateStateSizeMismatch ==
    /\ pc = "update_state"
    /\ Len(problem.b) # m
    /\ \/ /\ x' = WriteBack(x, F, xF, L, problem.l)
          /\ f' = Objective(problem.objective, x')
          /\ evaluations' = evaluations + 1
          /\ h' = multiKahanSum(problem.A, x')
          /\ pc' = "aborted"
          /\ UNCHANGED <<y, z, F, L, xF, gF, gL, zL, AF, AL, HF, error0, lsqInits>>
       \/ /\ UpdateStateBody
          /\ pc' = IF UnsupportedHessian(f'.hessian.mode) THEN "raised"
                   ELSE IF result.iterations = 0 THEN "loop"
                   ELSE "finish_iteration"
    /\ UNCHANGED <<problem, options, result, rhs, sol, alpha, ilimiting,
                   errorf, errorh, error, exitBy, newtonSteps>>
    /\ UNCHANGED <<solvers, editor>>

\* Line 395: the iteration counter and the iteration cap.
CapNever(iterations, max_iterations) == FALSE

CapExceeded(iterations, max_iterations) == iterations > max_iterations

BeginIteration ==
    /\ pc = "loop"
    /\ result' = [result EXCEPT !.iterations = result.iterations + 1]
    /\ IF CapExceeded(result'.iterations, options.max_iterations)
       THEN pc' = "return" /\ exitBy' = "cap"
       ELSE pc' = "compute_newton_step" /\ UNCHANGED exitBy
    /\ UNCHANGED <<problem, options, x, y, z, f, F, L, xF, gF, gL, zL, AF, AL,
                   HF, rhs, sol, h, alpha, ilimiting, errorf, errorh, error,
                   evaluations, error0, newtonSteps>>
    /\ UNCHANGED <<lsqInits, solvers, editor>>

\* Lines 396-398: compute_newton_step and compute_newton_step_failed.
ComputeNewtonStep ==
    /\ pc = "compute_newton_step"
    /\ rhs' = KktRhs(gF, AF, y, h, Len(F))
    /\ sol' \in KktSolutions(rhs', Len(F), m)
    /\ IF compute_newton_step_failed(sol')
       THEN pc' = "return" /\ exitBy' = "newton"
       ELSE pc' = "update_iterates" /\ UNCHANGED exitBy
    /\ newtonSteps' = newtonSteps + 1
    /\ UNCHANGED <<problem, options, x, y, z, f, result, F, L, xF, gF, gL, zL,
                   AF, AL, HF, h, alpha, ilimiting, errorf, errorh, error,
                   evaluations, error0>>
    /\ UNCHANGED <<lsqInits, solvers, editor>>

\* Lines 396-398 with the KKT solver that solves the KKT equation exactly.
\* A solve whose Newton direction a double does not hold exactly is left at
\* "rounded".
ComputeNewtonStepExact ==
    /\ pc = "compute_newton_step"
    /\ rhs' = KktRhs(gF, AF, y, h, Len(F))
    /\ IF KktExact(HessianDiagonal(HF), AF[1], rhs')
       THEN /\ sol' = KktSolve(HF, AF, rhs')
            /\ IF compute_newton_step_failed(sol')
               THEN pc' = "return" /\ exitBy' = "newton"
               ELSE pc' = "update_iterates" /\ UNCHANGED exitBy
       ELSE /\ pc' = "rounded"
            /\ UNCHANGED <<sol, exitBy>>
    /\ newtonSteps' = newtonSteps + 1
    /\ UNCHANGED <<problem, options, x, y, z, f, result, F, L, xF, gF, gL, zL,
                   AF, AL, HF, h, alpha, ilimiting, errorf, errorh, error,
                   evaluations, error0>>
    /\ UNCHANGED <<lsqInits, solvers, editor>>

\* Line 319: iglimiting = F[ilimiting] is executed before the test of line
\* 328.  When the line search names no limiting variable, ilimiting is
\* F.size() and the read is past the end of F: the behaviour is undefined.
\* The build either reads a value that nothing but the output uses, and goes
\* on as UpdateIterates does, or stops in the bounds check or the memory
\* fault of the read.
UpdateIteratesOutOfRange ==
    /\ pc = "update_iterates"
    /\ StepExact(DistanceToBound(xF, problem.l, F), sol.dx, One)
    /\ alpha' = fractionToTheBoundary(DistanceToBound(xF, problem.l, F), sol.dx, One).alpha
    /\ ilimiting' =
           fractionToTheBoundary(DistanceToBound(xF, problem.l, F), sol.dx, One).ilimiting
    /\ ilimiting' >= Len(F)
    /\ pc' = "aborted"
    /\ UNCHANGED <<problem, options, x, y, z, f, result, F, L, xF, gF, gL, zL,
                   AF, AL, HF, rhs, sol, h, errorf, errorh, error, exitBy,
                   evaluations, error0, newtonSteps>>
    /\ UNCHANGED <<lsqInits, solvers, editor>>

\* Line 399: update_iterates (lines 313-337), in a run in which the read of
\* line 319 does no harm.  A solve whose step length a double does not hold
\* exactly is left at "rounded".
UpdateIterates ==
    /\ pc = "update_iterates"
    /\ IF StepExact(DistanceToBound(xF, problem.l, F), sol.dx, One)
       THEN /\ alpha' = fractionToTheBoundary(DistanceToBound(xF, problem.l, F),
                                              sol.dx, One).alpha
            /\ ilimiting' = fractionToTheBoundary(DistanceToBound(xF, problem.l, F),
                                                  sol.dx, One).ilimiting
            /\ y' = VecAdd(y, VecScale(alpha', sol.dy))
            /\ x' = SetRows(x, F, VecAdd(xF, VecScale(alpha', sol.dx)))
            /\ F' = Pin(F, L, VecAdd(xF, VecScale(alpha', sol.dx)), ilimiting').F
            /\ L' = Pin(F, L, VecAdd(xF, VecScale(alpha', sol.dx)), ilimiting').L
            /\ xF' = Pin(F, L, VecAdd(xF, VecScale(alpha', sol.dx)), ilimiting').xF
            /\ AF' = cols(problem.A, F')
            /\ AL' = cols(problem.A, L')
            /\ pc' = "update_state"
       ELSE /\ pc' = "rounded"
            /\ UNCHANGED <<alpha, ilimiting, x, y, F, L, xF, AF, AL>>
    /\ UNCHANGED <<problem, options, z, f, result, gF, gL, zL, HF, rhs, sol, h,
                   errorf, errorh, error, exitBy, evaluations,
                   error0, newtonSteps>>
    /\ UNCHANGED <<lsqInits, solvers, editor>>

\* Lines 401-405: update_state_failed, update_errors and converged.
FinishIteration ==
    /\ pc = "finish_iteration"
    /\ IF update_state_failed(f)
       THEN /\ pc' = "return" /\ exitBy' = "state"
            /\ UNCHANGED <<result, errorf, errorh, error>>
       ELSE /\ errorf' = OptimalityError(gF, AF, y, Len(F))
            /\ errorh' = FeasibilityError(h)
            /\ error' = Max(errorf', errorh')
            /\ IF converged(error', options.tolerance)
               THEN /\ result' = [result EXCEPT !.error = error', !.succeeded = TRUE]
                    /\ pc' = "return" /\ exitBy' = "converged"
               ELSE /\ result' = [result EXCEPT !.error = error']
                    /\ pc' = "loop" /\ UNCHANGED exitBy
    /\ UNCHANGED <<problem, options, x, y, z, f, F, L, xF, gF, gL, zL, AF, AL,
                   HF, rhs, sol, h, alpha, ilimiting, evaluations, error0, newtonSteps>>
    /\ UNCHANGED <<lsqInits, solvers, editor>>

\* Lines 407-412: solve returns the result.
Return ==
    /\ pc = "return"
    /\ pc' = "done"
    /\ UNCHANGED <<problem, options, x, y, z, f, result, F, L, xF, gF, gL, zL,
                   AF, AL, HF, rhs, sol, h, alpha, ilimiting, errorf, errorh,
                   error, exitBy, evaluations, error0, newtonSteps>>
    /\ UNCHANGED <<lsqInits, solvers, editor>>

Next ==
    \/ Initialize
    \/ InitializeSizeMismatch
    \/ UpdateState
    \/ UpdateStateSizeMismatch
    \/ BeginIteration
    \/ ComputeNewtonStep
    \/ UpdateIterates
    \/ UpdateIteratesOutOfRange
    \/ FinishIteration
    \/ Return

\* The solver with a KKT solver that may return any direction.
Spec == Init /\ [][Next]_vars

NextNewton ==
    \/ Initialize
    \/ InitializeSizeMismatch
    \/ UpdateState
    \/ UpdateStateSizeMismatch
    \/ BeginIteration
    \/ ComputeNewtonStepExact
    \/ UpdateIterates
    \/ UpdateIteratesOutOfRange
    \/ FinishIteration
    \/ Return

\* The solver with the KKT solver that solves the KKT equation exactly.
SpecNewton == InitNewton /\ [][NextNewton]_vars

\* A second call of solve on the same solver object (lines 84-132): the call
\* gets a problem and a state of its own and starts with a new OptimumResult
\* and new locals (the vector h of line 132 is empty again, the step length
\* and the errors are as at the start of the first call), and it works on
\* the members the Impl object has kept from the first call.  F and L hold
\* the n indices of the first call.
SolveAgain ==
    /\ pc = "done"
    /\ Len(F) + Len(L) = n
    /\ problem' \in ProblemsReuse
    /\ x' \in StartXReuse
    /\ y' \in {<<>>, y}
    /\ result' = [succeeded |-> FALSE, iterations |-> 0, error |-> Zero]
    /\ pc' = "start"
    /\ exitBy' = "none"
    /\ evaluations' = 0
    /\ error0' = Zero
    /\ newtonSteps' = 0
    /\ lsqInits' = 0
    /\ h' = <<>>
    /\ alpha' = Zero /\ ilimiting' = 0
    /\ errorf' = Zero /\ errorh' = Zero /\ error' = Zero
    /\ UNCHANGED <<options, z, f, F, L, xF, gF, gL, zL, AF, AL, HF, rhs, sol,
                   solvers, editor>>

InitReuse ==
    /\ problem \in ProblemsReuse
    /\ options \in Options
    /\ x \in StartXReuse
    /\ y = <<>>
    /\ InitWorkspace

NextReuse ==
    \/ Initialize
    \/ UpdateState
    \/ BeginIteration
    \/ ComputeNewtonStepExact
    \/ UpdateIterates
    \/ UpdateIteratesOutOfRange
    \/ FinishIteration
    \/ Return
    \/ SolveAgain

\* Two calls of solve, one after the other, on one solver object.
SpecReuse == InitReuse /\ [][NextReuse]_vars

\* The solves of strictly convex problems from strictly interior feasible
\* points.
InitConvex ==
    /\ problem \in ProblemsConvex
    /\ options \in OptionsConvex
    /\ x \in {v \in [1..NumVars -> XValsNewton] : FeasibleInterior(problem, v)}
    /\ y \in YVecsNewton
    /\ InitWorkspace

NextSolve ==
    \/ Initialize
    \/ UpdateState
    \/ BeginIteration
    \/ ComputeNewtonStepExact
    \/ UpdateIterates
    \/ UpdateIteratesOutOfRange
    \/ FinishIteration
    \/ Return

SpecConvex == InitConvex /\ [][NextSolve]_vars

\* The scenario problem: minimise x1^2/2 + x2^2/2 subject to x1 + x2 = 1 and
\* x >= 0, with the Hessian tagged Diagonal or Dense, from any state.
MaxIterationsScenario == 10

ProblemsScenario ==
    [A : {<<[k \in 1..NumVars |-> One]>>}, b : {<<Rat(1)>>}, l : {zeros(NumVars)},
     objective : [c : {zeros(NumVars)}, hd : {[i \in 1..NumVars |-> One]},
                  mode : {"Diagonal", "Dense"}, pole : {NaN}, hpole : {NaN}, D : {<<>>}]]

OptionsScenario ==
    [tolerance : {Norm(1, 8), Norm(1, 64)}, max_iterations : {MaxIterationsScenario}]

InitScenario ==
    /\ problem \in ProblemsScenario
    /\ options \in OptionsScenario
    /\ x \in StartXNewton
    /\ y \in YVecsNewton
    /\ InitWorkspace

SpecScenario == InitScenario /\ [][NextSolve]_vars

\* The solves with an objective whose Hessian is not finite at x[0] = hpole:
\* the minimiser of the first problems is (1/2, 1/2), that of the second
\* ones is (1, 1).
ObjectivesHessian ==
    [c : {zeros(NumVars), [i \in 1..NumVars |-> Rat(-1)]},
     hd : {[i \in 1..NumVars |-> One]},
     mode : {"Diagonal", "Dense"}, pole : {NaN}, hpole : {Half, Rat(1)}, D : {<<>>}]

ProblemsHessian ==
    [A : {<<[k \in 1..NumVars |-> One]>>}, b : {<<Rat(1)>>, <<Rat(2)>>}, l : LVecs,
     objective : ObjectivesHessian]

InitHessian ==
    /\ problem \in ProblemsHessian
    /\ options \in OptionsConvex
    /\ x \in [1..NumVars -> XValsNewton]
    /\ y \in YVecsNewton
    /\ InitWorkspace

SpecHessian == InitHessian /\ [][NextSolve]_vars

\* The public solve(problem, state, options), lines 464-481: regproblem is a
\* copy of the problem whose objective is the lambda that captures D, and
\* solve of Impl runs on regproblem.  The states have a vector x of the size
\* of l, with components whose square roots are numbers of the model.
XValsPublic == {Rat(0), Norm(1, 4), Rat(1), Rat(4)}

ProblemsPublic ==
    [A : AMatrices, b : {<<Rat(1)>>, <<Rat(2)>>}, l : LVecs,
     objective : [c : {zeros(NumVars), [i \in 1..NumVars |-> Rat(-1)]},
                  hd : {[i \in 1..NumVars |-> One]},
                  mode : {"Diagonal"}, pole : {NaN}, hpole : {NaN}, D : {<<>>}]]

PublicSolve ==
    /\ pc = "public"
    /\ Len(x) = Len(problem.l)
    /\ problem' = [problem EXCEPT !.objective.D = RegularizationD(x, problem.l)]
    /\ pc' = "start"
    /\ UNCHANGED <<options, x, y, z, f, result, F, L, xF, gF, gL, zL, AF, AL,
                   HF, rhs, sol, h, alpha, ilimiting, errorf, errorh, error,
                   exitBy, evaluations, error0, newtonSteps, lsqInits, solvers, editor>>

InitPublic ==
    /\ problem \in ProblemsPublic
    /\ options \in OptionsConvex
    /\ x \in [1..NumVars -> XValsPublic]
    /\ y \in YVecsNewton
    /\ InitLocals
    /\ pc = "public"

NextPublic ==
    \/ PublicSolve
    \/ NextSolve

SpecPublic == InitPublic /\ [][NextPublic]_vars

\* Two solver objects: the second one is made from the first one by the copy
\* constructor (lines 419-421), by operator= (lines 426-430, whose by-value
\* parameter is made by the copy constructor) or by clone (lines 484-487,
\* which calls the copy constructor).  Each of them is used by its own
\* caller, and the steps of their calls of solve interleave.  The variables
\* of solve hold the call of the object `active`; the call of the other
\* object is in `suspended` and its Impl is in `impls`.

\* The members of the Impl of the running call, lines 67-82.
Members ==
    [F |-> F, L |-> L, xF |-> xF, gF |-> gF, gL |-> gL, zL |-> zL,
     AF |-> AF, AL |-> AL, HF |-> HF, rhs |-> rhs, sol |-> sol]

\* The arguments and the locals of the running call, lines 84-132.
Locals ==
    [problem |-> problem, options |-> options, x |-> x, y |-> y, z |-> z, f |-> f,
     result |-> result, h |-> h, alpha |-> alpha, ilimiting |-> ilimiting,
     errorf |-> errorf, errorh |-> errorh, error |-> error, pc |-> pc,
     exitBy |-> exitBy, evaluations |-> evaluations, error0 |-> error0,
     newtonSteps |-> newtonSteps, lsqInits |-> lsqInits]

\* A call of solve that has not started.
FreshCall(p, o, x0, y0) ==
    [problem |-> p, options |-> o, x |-> x0, y |-> y0, z |-> zeros(NumVars),
     f |-> [val |-> Zero, grad |-> <<>>,
            hessian |-> [mode |-> "Dense", dense |-> <<>>, diagonal |-> <<>>]],
     result |-> [succeeded |-> FALSE, iterations |-> 0, error |-> Zero],
     h |-> <<>>, alpha |-> Zero, ilimiting |-> 0,
     errorf |-> Zero, errorh |-> Zero, error |-> Zero, pc |-> "start",
     exitBy |-> "none", evaluations |-> 0, error0 |-> Zero,
     newtonSteps |-> 0, lsqInits |-> 0]

\* The heap h with the object v at the address k.
Store(h0, k, v) == [a \in DOMAIN h0 \cup {k} |-> IF a = k THEN v ELSE h0[a]]

Other(o) == 3 - o

\* pimpl(other.pimpl), the copy of the pointer, in place of line 420.
ShareImpl(slot) == slot

\* pimpl(new Impl(*other.pimpl)), line 420: a new Impl object, at an address
\* no other solver object holds.
CloneImpl(slot) == slot + 1

\* The copy constructor, with the first call of solve on the copy, for the
\* problem of the source and a state of its own.  The copy is made before
\* or after the call of solve on the source.
CopySolver ==
    /\ active = 1
    /\ pimpl[2] = 0
    /\ pc \in {"start", "done"}
    /\ pimpl' = [pimpl EXCEPT ![2] = CloneImpl(pimpl[1])]
    /\ impls' = Store(Store(impls, pimpl[1], Members), pimpl'[2], Members)
    /\ expected' = Store(Store(expected, 1, Members), 2, Members)
    /\ \E x0 \in StartXReuse :
           suspended' = FreshCall(problem, options, x0, <<>>)
    /\ UNCHANGED <<problem, options, x, y, z, f, result, F, L, xF, gF, gL, zL,
                   AF, AL, HF, rhs, sol, h, alpha, ilimiting, errorf, errorh,
                   error, pc, exitBy, evaluations, error0, newtonSteps, lsqInits,
                   active, editor>>

\* The scheduler goes from the call of one solver object to the call of
\* the other one: the running call finds the Impl its pimpl points to.
Switch ==
    /\ pimpl[Other(active)] # 0
    /\ active' = Other(active)
    /\ impls' = Store(impls, pimpl[active], Members)
    /\ expected' = Store(expected, active, Members)
    /\ suspended' = Locals
    /\ problem' = suspended.problem /\ options' = suspended.options
    /\ x' = suspended.x /\ y' = suspended.y /\ z' = suspended.z /\ f' = suspended.f
    /\ result' = suspended.result /\ h' = suspended.h
    /\ alpha' = suspended.alpha /\ ilimiting' = suspended.ilimiting
    /\ errorf' = suspended.errorf /\ errorh' = suspended.errorh
    /\ error' = suspended.error /\ pc' = suspended.pc /\ exitBy' = suspended.exitBy
    /\ evaluations' = suspended.evaluations /\ error0' = suspended.error0
    /\ newtonSteps' = suspended.newtonSteps /\ lsqInits' = suspended.lsqInits
    /\ F' = impls'[pimpl[active']].F /\ L' = impls'[pimpl[active']].L
    /\ xF' = impls'[pimpl[active']].xF
    /\ gF' = impls'[pimpl[active']].gF /\ gL' = impls'[pimpl[active']].gL
    /\ zL' = impls'[pimpl[active']].zL
    /\ AF' = impls'[pimpl[active']].AF /\ AL' = impls'[pimpl[active']].AL
    /\ HF' = impls'[pimpl[active']].HF
    /\ rhs' = impls'[pimpl[active']].rhs /\ sol' = impls'[pimpl[active']].sol
    /\ UNCHANGED <<pimpl, editor>>

OptionsCopies == {[tolerance |-> Rat(1), max_iterations |-> 1]}

InitCopies ==
    /\ problem \in ProblemsReuse
    /\ options \in OptionsCopies
    /\ x \in StartXReuse
    /\ y = <<>>
    /\ InitWorkspace

NextCopies ==
    \/ NextSolve
    \/ CopySolver
    \/ Switch

SpecCopies == InitCopies /\ [][NextCopies]_vars

\* The solves of problems with three variables, for every direction the KKT
\* solver returns: the lists F and L hold up to three indices.
NumVarsOrder == 3

ProblemsOrder ==
    [A : {<<[k \in 1..NumVarsOrder |-> One]>>}, b : {<<Rat(1)>>},
     l : {zeros(NumVarsOrder), [i \in 1..NumVarsOrder |-> IF i = 1 THEN Rat(1) ELSE Zero]},
     objective : [c : {[i \in 1..NumVarsOrder |-> Rat(-1)],
                       [i \in 1..NumVarsOrder |-> IF i = 2 THEN Rat(-1) ELSE Rat(1)]},
                  hd : {[i \in 1..NumVarsOrder |-> One]},
                  mode : {"Diagonal"}, pole : {NaN}, hpole : {NaN}, D : {<<>>}]]

OptionsOrder == {[tolerance |-> Rat(1), max_iterations |-> 1]}

InitOrder ==
    /\ problem \in ProblemsOrder
    /\ options \in OptionsOrder
    /\ x \in [1..NumVarsOrder -> XVals]
    /\ y \in {<<>>, <<Rat(1)>>}
    /\ InitWorkspace

NextOrder ==
    \/ Initialize
    \/ UpdateState
    \/ BeginIteration
    \/ ComputeNewtonStep
    \/ UpdateIterates
    \/ UpdateIteratesOutOfRange
    \/ FinishIteration
    \/ Return

SpecOrder == InitOrder /\ [][NextOrder]_vars

\* The solves of the problems with three variables with the exact KKT
\* solver and a tolerance above the multipliers of the pinned variables.
OptionsDual == [tolerance : {Rat(4)}, max_iterations : {1, 2}]

InitDual ==
    /\ problem \in ProblemsOrder
    /\ options \in OptionsDual
    /\ x \in [1..NumVarsOrder -> XVals]
    /\ y \in {<<>>, <<Rat(1)>>}
    /\ InitWorkspace

SpecDual == InitDual /\ [][NextSolve]_vars

----------------------------------------------------------------------------
(* The properties of solve *)

\* The positions of solve that follow the initialization of lines 134-149.
Initialized == pc \notin {"start", "aborted"}

\* update_state has just run (before the loop or in an iteration).
AfterUpdateState == pc \in {"loop", "finish_iteration", "raised"}

\* update_iterates has just run.
AfterUpdateIterates == pc = "update_state" /\ newtonSteps >= 1

\* The last update_iterates pinned a variable (sol.dx has the length F had
\* before the step).
PinnedByLastStep == newtonSteps >= 1 /\ ilimiting < Len(sol.dx)

\* C1: after the initialization, and so after every update_iterates and every
\* update_state, F and L list no index twice, share no index, and together
\* list exactly the indices 0..n-1.
C1_Partition ==
    Initialized =>
        /\ NoDuplicates(F)
        /\ NoDuplicates(L)
        /\ Range(F) \cap Range(L) = {}
        /\ Range(F) \cup Range(L) = 0..(n - 1)

\* C1 witness: an iteration in which update_iterates pinned a variable and
\* update_state then released one.
C1_Witness ==
    /\ pc = "finish_iteration"
    /\ PinnedByLastStep
    /\ Len(F) = Len(sol.dx)
    /\ Len(L) >= 1

\* C2: after every update_state, x[i] equals l[i] for every index i of L.
C2_PinnedAtBound ==
    AfterUpdateState =>
        \A k \in 1..Len(L) : Eq(x[L[k] + 1], problem.l[L[k] + 1])

\* C2 witness: update_state has run after an update_iterates that pinned a
\* variable, and released none, so that the pinned variable is in L; its
\* bound is not zero.
C2_Witness ==
    /\ pc = "finish_iteration"
    /\ PinnedByLastStep
    /\ Len(F) = Len(sol.dx) - 1
    /\ problem.l[L[Len(L)] + 1] # Zero

\* C3: after every update_iterates, every free variable is at or above its
\* lower bound, in x and in xF, whatever direction the KKT solver returned.
C3_FreeAboveBound ==
    AfterUpdateIterates =>
        \A k \in 1..Len(F) :
            /\ GreaterEq(x[F[k] + 1], problem.l[F[k] + 1])
            /\ GreaterEq(xF[k], problem.l[F[k] + 1])

\* C3 witness: a step that was cut short by a bound that is not zero, and
\* that left a variable free.
C3_Witness ==
    /\ AfterUpdateIterates
    /\ Less(alpha, One)
    /\ Len(F) >= 1
    /\ \E k \in 1..Len(L) : problem.l[L[k] + 1] # Zero

\* C4: the step length chosen by update_iterates is greater than 0 and at
\* most 1.
C4_StepLengthPositive ==
    AfterUpdateIterates => Less(Zero, alpha) /\ LessEq(alpha, One)

\* C5: solve returns succeeded = true exactly when the last iteration was
\* completed (the cap was not exceeded, the Newton direction and the
\* objective evaluation were finite) and max(errorf, errorh) of the returned
\* state is below options.tolerance, and result.error is that maximum.
C5_SucceededIffConverged ==
    pc = "done" =>
        /\ result.succeeded <=>
              /\ result.iterations <= options.max_iterations
              /\ ~compute_newton_step_failed(sol)
              /\ ~update_state_failed(f)
              /\ Less(Max(OptimalityError(gF, AF, y, Len(F)), FeasibilityError(h)),
                      options.tolerance)
        /\ result.succeeded =>
              result.error = Max(OptimalityError(gF, AF, y, Len(F)), FeasibilityError(h))

\* C5 witness: a solve that returned succeeded = true after two iterations.
C5_Witness == pc = "done" /\ result.succeeded /\ result.iterations = 2

\* C6: once the iteration counter exceeds options.max_iterations, solve is
\* returning (no error is raised) with succeeded = false, the loop was left
\* at the cap, and compute_newton_step ran only in the iterations before.
C6_CapExit ==
    result.iterations > options.max_iterations =>
        /\ pc \in {"return", "done"}
        /\ ~result.succeeded
        /\ exitBy = "cap"
        /\ newtonSteps = result.iterations - 1

\* C6 witness: a solve that returned at the cap after its iterations.
C6_Witness ==
    /\ pc = "done"
    /\ result.iterations > options.max_iterations
    /\ options.max_iterations >= 1

\* C7: when the first evaluation of the objective returns a non-finite
\* gradient, no Newton step is computed, the result has succeeded = false
\* and solve returns with iterations = 1.
C7_NoStepAfterFailedFirstEvaluation ==
    (evaluations = 1 /\ ~allFinite(f.grad)) =>
        /\ newtonSteps = 0
        /\ ~result.succeeded
        /\ pc = "done" => result.iterations = 1

\* C8: a Hessian tag that is neither Dense nor Diagonal makes solve raise an
\* error: solve does not go on and returns no result; when the tag comes with
\* the first evaluation, no iteration was counted and no Newton step computed.
C8_UnsupportedHessianRaises ==
    (evaluations >= 1 /\ f.hessian.mode \notin {"Dense", "Diagonal"}) =>
        /\ pc = "raised"
        /\ ~result.succeeded
        /\ evaluations = 1 => (result.iterations = 0 /\ newtonSteps = 0)

\* C8 witness: the first evaluation returned a Hessian tagged Inverse.
C8_Witness == pc = "raised" /\ evaluations = 1 /\ f.hessian.mode = "Inverse"

\* The sizes of A, b and l agree.
ConsistentSizes == Len(problem.l) = n /\ Len(problem.b) = m

\* C9: a problem whose sizes do not agree is stopped with an error before the
\* main loop: no iteration is counted for it and solve does not return.
C9_SizesValidated ==
    ~ConsistentSizes =>
        /\ result.iterations = 0
        /\ pc \in {"start", "update_state", "aborted"}

\* The state the main loop starts from is converged: its error, measured as
\* converged() measures it, is below the tolerance.
ConvergedStart == Less(error0, options.tolerance)

\* C10: a solve that starts from a converged state, is allowed an iteration
\* (max_iterations >= 1) and meets no numerical failure returns succeeded =
\* true after at most one iteration.
C10_ConvergedStartOneIteration ==
    (pc = "done" /\ ConvergedStart /\ options.max_iterations >= 1
       /\ exitBy \notin {"newton", "state"}) =>
        result.succeeded /\ result.iterations <= 1

\* A Newton solution with a component that is not finite.
NonFinite(s) ==
    \E v \in {s.dx, s.dy, s.dz} : \E k \in 1..Len(v) : ~IsFinite(v[k])

\* C14: when a component of the Newton solution is not finite, the loop is
\* left at once: the step is not applied (x, y, xF, F and L keep their
\* values), succeeded stays false, and solve returns the result.
C14_NonFiniteStepAborts ==
    [][/\ (pc = "compute_newton_step" /\ NonFinite(sol')) =>
             /\ pc' = "return"
             /\ ~result'.succeeded
             /\ UNCHANGED <<x, y, xF, F, L, result>>
       /\ (pc = "return" /\ NonFinite(sol)) =>
             /\ pc' = "done"
             /\ ~result'.succeeded
             /\ UNCHANGED <<x, y, xF, F, L, result>>]_vars

\* C14 witness: solve returned after a Newton solution whose dx is finite (or
\* empty) and whose dy is not, computed in the second iteration.
C14_Witness ==
    /\ pc = "done"
    /\ exitBy = "newton"
    /\ allFinite(sol.dx)
    /\ ~allFinite(sol.dy)
    /\ result.iterations = 2

\* C18: update_state moves at most one index from L to F.  With finite
\* multipliers zL = gL - tr(AL)*y: when L is not empty and the smallest
\* multiplier is negative, an index with the smallest multiplier goes from L
\* to the end of F and its lower bound to the end of xF; otherwise F, L and
\* xF keep their values.
C18_ReleaseOneIndex ==
    [][(pc = "update_state" /\ pc' # "aborted") =>
          /\ zL' = VecSub(rows(f'.grad, L), TrMul(AL, y', Len(L)))
          /\ \/ F' = F /\ L' = L /\ xF' = xF
             \/ \E k \in 1..Len(L) :
                    /\ F' = Append(F, L[k])
                    /\ L' = erase(L, k - 1)
                    /\ xF' = Append(xF, problem.l[L[k] + 1])
          /\ (allFinite(zL') /\ \E k \in 1..Len(L) : Less(zL'[k], Zero)) =>
                \E k \in 1..Len(L) :
                    /\ \A j \in 1..Len(L) : LessEq(zL'[k], zL'[j])
                    /\ F' = Append(F, L[k])
                    /\ L' = erase(L, k - 1)
                    /\ xF' = Append(xF, problem.l[L[k] + 1])
          /\ (allFinite(zL') /\ ~\E k \in 1..Len(L) : Less(zL'[k], Zero)) =>
                F' = F /\ L' = L /\ xF' = xF]_vars

\* C18 witness: update_state found two negative multipliers, the second one
\* the smaller, and released the second index.
C18_Witness ==
    /\ AfterUpdateState
    /\ Len(zL) = 2
    /\ Less(zL[2], zL[1])
    /\ Less(zL[1], Zero)
    /\ F = <<1>>
    /\ L = <<0>>

\* C19: update_iterates moves at most one index from F to L.  When the line
\* search names a limiting position, the index at that position leaves F, its
\* value leaves xF and the index goes to the end of L; otherwise F and L keep
\* their values and xF its length.  Every other free variable stays in F.
C19_PinOneIndex ==
    [][pc = "update_iterates" =>
          /\ ilimiting' <= Len(F)
          /\ ilimiting' < Len(F) =>
                /\ F' = erase(F, ilimiting')
                /\ L' = Append(L, F[ilimiting' + 1])
                /\ xF' = erase(VecAdd(xF, VecScale(alpha', sol.dx)), ilimiting')
          /\ ilimiting' = Len(F) =>
                /\ F' = F
                /\ L' = L
                /\ Len(xF') = Len(xF)]_vars

\* C19 witness: two free variables reached their bounds at the same step
\* length; the first one was pinned and the second one is still free, at its
\* bound.
C19_Witness ==
    /\ AfterUpdateIterates
    /\ Len(sol.dx) = 2
    /\ ilimiting = 0
    /\ Len(F) = 1
    /\ Less(sol.dx[2], Zero)
    /\ Eq(xF[1], problem.l[F[1] + 1])

\* C20: within one solve the least-squares initialization of y (lines
\* 229-230) is executed at most once.
C20_LeastSquaresOnce == lsqInits <= 1

\* The index lists a freshly constructed solver has after lines 142-144 for
\* the state x of this call.
FreshPartition == InitPartition(x, problem.l, 0, n, <<>>, <<>>)

\* C11: the working set of a call of solve depends on the problem and the
\* state of this call only.  After the initialization of lines 134-149, F, L
\* and xF are those of a freshly constructed solver, and at the start of the
\* main loop F and L list every index once and xF holds the values of the
\* free variables.
C11_WorkingSetOfThisCall ==
    /\ (pc = "update_state" /\ evaluations = 0) =>
          /\ F = FreshPartition.F
          /\ L = FreshPartition.L
          /\ xF = rows(x, FreshPartition.F)
    /\ (pc = "loop" /\ result.iterations = 0) =>
          /\ Len(F) + Len(L) = n
          /\ Range(F) \cap Range(L) = {}
          /\ xF = rows(x, F)

\* C12: a solve of a strictly convex problem with a matrix A of full row
\* rank, from a strictly interior feasible point, reaches succeeded = true
\* with at most max_iterations iterations.  The main loop of lines 390-405
\* always ends (the iteration cap of line 393), so the claim is stated on
\* the returned result: every such call that returns has succeeded.
C12_ConvexConverges ==
    pc = "done" =>
        /\ result.succeeded
        /\ result.iterations <= options.max_iterations

\* C13: for the objective x1^2/2 + x2^2/2, the constraint x1 + x2 = 1 and the
\* lower bounds 0, solve returns succeeded = true and x = (1/2, 1/2) up to
\* the tolerance after fewer than 10 iterations.
C13_ScenarioSolved ==
    pc = "done" =>
        /\ result.succeeded
        /\ result.iterations < 10
        /\ \A i \in 1..n : LessEq(Abs(Sub(x[i], Half)), options.tolerance)

\* The Hessian returned by the objective has an entry that is not finite.
HessianNotFinite(H) ==
    \/ H.mode = "Diagonal" /\ ~allFinite(H.diagonal)
    \/ H.mode = "Dense" /\ \E r \in 1..Len(H.dense) : ~allFinite(H.dense[r])

\* C15: when the evaluation of the objective in an iteration returns a finite
\* value and a finite gradient with a Hessian that has a non-finite entry,
\* that iteration ends the loop and solve returns succeeded = false.
C15_NonFiniteHessianAborts ==
    [][(/\ pc = "finish_iteration"
        /\ ~update_state_failed(f)
        /\ HessianNotFinite(f.hessian))
       => (pc' = "return" /\ ~result'.succeeded)]_vars

\* C17: with rho = 0 the objective handed to the algorithm by the public
\* solve returns the value, the gradient and the Hessian of the objective of
\* the caller: after every evaluation of line 222, f is what the objective of
\* the caller returns at x.
C17_WrapperIsIdentity ==
    (pc \in {"loop", "finish_iteration"} /\ evaluations > 0) =>
        f = CallerObjective(problem.objective, x)

\* C16: a solver made by the copy constructor, operator= or clone shares no
\* working state with its source.  Whenever the call of one of the two
\* objects goes on after steps of the call of the other one, it finds the
\* members of its Impl (the partition F, L and the working vectors) as it
\* left them.
C16_CopiesIndependent ==
    [][active' # active => Members' = expected[active']]_vars

\* Both calls have returned, the call of the source goes on after the call of
\* the copy, and the two objects hold different partitions.
C16_Witness ==
    /\ active = 1
    /\ pimpl[2] # 0
    /\ pc = "done"
    /\ suspended.pc = "done"
    /\ suspended.evaluations > 0
    /\ evaluations > 0
    /\ impls[pimpl[2]].F # F

\* C21: the active-set updates never cycle.  An iteration after the first
\* one never ends in the configuration (x, y, set F, set L) in which the
\* iteration before it ended: update_state never frees the index that a step
\* of length zero has just attached to its bound, with x and y as they were.
C21_NoCycle ==
    [][~(/\ pc = "update_state"
         /\ result.iterations >= 2
         /\ alpha = Zero
         /\ PinnedByLastStep
         /\ allFinite(sol.dx) /\ allFinite(sol.dy)
         /\ Range(F') = Range(F) \cup {L[Len(L)]}
         /\ Range(L') = Range(L) \ {L[Len(L)]}
         /\ x' = x
         /\ y' = y)]_vars

\* The list s holds its indices in increasing order.
Increasing(s) == \A j, k \in 1..Len(s) : j < k => s[j] < s[k]

\* C22: the initialization of a solve on a fresh solver, with a vector l of n
\* bounds, leaves x >= l; when state.x has n components, x[i] is the larger
\* of the passed x[i] and l[i]; L lists the indices with x[i] = l[i] and F
\* those with x[i] > l[i], each in increasing order.
C22_Initialization ==
    [][(pc = "start" /\ pc' = "update_state" /\ Len(problem.l) = n
        /\ F = <<>> /\ L = <<>>)
       => /\ Len(x') = n
          /\ \A i \in 1..n : GreaterEq(x'[i], problem.l[i])
          /\ Len(x) = n => \A i \in 1..n : x'[i] = Max(x[i], problem.l[i])
          /\ Range(L') = {i \in 0..(n - 1) : Eq(x'[i + 1], problem.l[i + 1])}
          /\ Range(F') = {i \in 0..(n - 1) : Greater(x'[i + 1], problem.l[i + 1])}
          /\ Increasing(F') /\ Increasing(L')]_vars

\* C22 witness: the initialization has raised x[0] to its bound 1, index 0
\* is in L and index 1 in F.
C22_Witness ==
    /\ pc = "update_state"
    /\ evaluations = 0
    /\ Len(problem.l) = n
    /\ problem.l[1] = Rat(1)
    /\ x[1] = Rat(1)
    /\ L = <<0>>
    /\ F = <<1>>

\* The vector v has an entry that is not zero.
HasNonZeroEntry(v) == \E i \in 1..Len(v) : v[i] # Zero

\* C23: a vector y of m entries, one of them not zero, passed by the caller
\* is the y of the first Newton step: the initialization keeps it and the
\* first update_state does not replace it by the least-squares estimate.  A
\* vector y of another length is set to zeros(m) by the initialization and
\* replaced by the least-squares estimate in the first update_state.  The
\* first part fails for a y whose non-zero entries have squares that
\* underflow: its norm is zero at line 227.
C23_StartingMultipliers ==
    [][/\ (pc = "start" /\ pc' = "update_state") =>
              /\ (Len(y) = m /\ HasNonZeroEntry(y)) => y' = y
              /\ Len(y) # m => y' = zeros(m)
       /\ (pc = "update_state" /\ evaluations = 0 /\ pc' # "aborted") =>
              /\ HasNonZeroEntry(y) => (y' = y /\ lsqInits' = 0)
              /\ y = zeros(m) =>
                     /\ y' = FullPivLuSolve(AF, rows(f'.grad, F))
                     /\ lsqInits' = 1]_vars

\* The list s without its entry at position k (1-based), the other entries
\* in their order.
Without(s, k) == SubSeq(s, 1, k - 1) \o SubSeq(s, k + 1, Len(s))

\* C24: every move of an index between F and L is an order-preserving
\* compaction.  update_iterates moves at most one index from F to the end of
\* L and update_state at most one index from L to the end of F; the indices
\* that stay keep their order, and afterwards xF has the length of F and
\* xF[k] is the value of the variable F[k].
C24_OrderPreserved ==
    [][/\ pc = "update_iterates" =>
              \/ F' = F /\ L' = L
              \/ \E k \in 1..Len(F) : F' = Without(F, k) /\ L' = Append(L, F[k])
       /\ (pc = "update_state" /\ pc' # "aborted") =>
              \/ F' = F /\ L' = L
              \/ \E k \in 1..Len(L) : L' = Without(L, k) /\ F' = Append(F, L[k])
       /\ (pc \in {"update_iterates", "update_state"} /\ pc' # "aborted") =>
              /\ Len(xF') = Len(F')
              /\ \A k \in 1..Len(F') : xF'[k] = x'[F'[k] + 1]]_vars

\* C24 witness: update_iterates has taken the first of three free variables
\* out of F; the two that stay are in their order and xF holds their values.
C24_Witness ==
    /\ AfterUpdateIterates
    /\ Len(sol.dx) = 3
    /\ ilimiting = 0
    /\ F = <<1, 2>>
    /\ L = <<0>>
    /\ xF[1] # xF[2]

\* C25: every read F[ilimiting] of update_iterates uses a position below
\* F.size(): the position that the line search returns, with which line 319
\* reads F, is a position of F.
C25_LimitingIndexInRange ==
    [][pc = "update_iterates" => ilimiting' < Len(F)]_vars

\* C26: when solve returns succeeded = true, the multiplier z[i] of every
\* variable i that is still in L is not negative.
C26_DualFeasibleOnSuccess ==
    (pc = "done" /\ result.succeeded) =>
        \A k \in 1..Len(L) : GreaterEq(z[L[k] + 1], Zero)

\* Row r of A*x - b.
Residual(r) ==
    Sub(SumFrom(Zero, [k \in 1..n |-> Mul(problem.A[r][k], x[k])]), problem.b[r])

\* C27: when solve returns succeeded = true, the returned x is primal
\* feasible: x[i] >= l[i] for every variable, and every entry of A*x - b is
\* below options.tolerance in absolute value.
C27_PrimalFeasibleOnSuccess ==
    (pc = "done" /\ result.succeeded) =>
        /\ \A i \in 1..n : GreaterEq(x[i], problem.l[i])
        /\ \A r \in 1..m : Less(Abs(Residual(r)), options.tolerance)

\* C27 witness: a solve that returned succeeded = true after a step that
\* attached a variable to a bound that is not zero, with a residual that is
\* not zero.
C27_Witness ==
    /\ pc = "done"
    /\ result.succeeded
    /\ Len(L) >= 1
    /\ Residual(1) # Zero

\* C28: an iteration that ends by the iteration cap or by a Newton direction
\* that is not finite leaves x, y, F and L as the iteration before left
\* them, and result.error is the error of the last completed iteration; they
\* are returned as they are.
C28_FailedIterationChangesNothing ==
    [][/\ (pc = "loop" /\ result.iterations + 1 > options.max_iterations) =>
             /\ pc' = "return"
             /\ UNCHANGED <<x, y, F, L>>
             /\ result'.error = result.error
       /\ (pc = "loop" /\ result.iterations + 1 <= options.max_iterations) =>
             /\ UNCHANGED <<x, y, F, L>>
             /\ result'.error = result.error
       /\ (pc = "compute_newton_step" /\ NonFinite(sol')) =>
             /\ pc' = "return"
             /\ UNCHANGED <<x, y, F, L>>
             /\ result'.error = result.error
       /\ (pc = "return" /\ exitBy \in {"cap", "newton"}) =>
             /\ UNCHANGED <<x, y, F, L>>
             /\ result'.error = result.error
             /\ result.error = error]_vars

\* C28 witness: solve returned at the cap after two completed iterations,
\* with the error of the second one and a variable on its bound.
C28_Witness ==
    /\ pc = "done"
    /\ exitBy = "cap"
    /\ result.iterations = 3
    /\ result.error = error
    /\ result.error # Zero
    /\ Len(L) >= 1

\* The position of solve inside one pass of the loop of lines 393-405, counted
\* backwards from the return.
StepsToReturn(p) ==
    CASE p = "start" -> 7
      [] p = "compute_newton_step" -> 6
      [] p = "update_iterates" -> 5
      [] p = "update_state" -> 4
      [] p = "finish_iteration" -> 3
      [] p = "loop" -> 2
      [] p = "return" -> 1
      [] OTHER -> 0

\* A variant of solve: the passes the cap still allows, then the position
\* inside the pass.
Variant(iterations, max_iterations, p) ==
    (max_iterations + 1 - iterations) * 8 + StepsToReturn(p)

\* C29 as stated: the reported result.iterations never exceeds
\* options.max_iterations.
C29_IterationsWithinCap ==
    pc = "done" => result.iterations <= options.max_iterations

\* C29 as amended: every step of solve decreases a variant that is never
\* negative (so solve terminates), at most max_iterations Newton steps are
\* computed, and result.iterations never exceeds max_iterations + 1.
C29_TerminatesWithinCapPlusOne ==
    [][/\ Variant(result'.iterations, options'.max_iterations, pc')
             < Variant(result.iterations, options.max_iterations, pc)
       /\ Variant(result'.iterations, options'.max_iterations, pc') >= 0
       /\ newtonSteps' <= options'.max_iterations
       /\ result'.iterations <= options'.max_iterations + 1]_vars

\* C29 witness: solve returned at the cap with max_iterations Newton steps
\* computed and max_iterations + 1 reported.
C29_Witness ==
    /\ pc = "done"
    /\ exitBy = "cap"
    /\ options.max_iterations = MaxIterationsCap
    /\ newtonSteps = options.max_iterations
    /\ result.iterations = options.max_iterations + 1

\* ---------------------------------------------------------------------
\* The ChemicalEditor alone: its interpolation points are set any number of
\* times.

MaxPoints == 2

TemperatureVals == {Rat(0), Rat(25), Rat(300)}

PressureVals == {Rat(1), Rat(100)}

PointVecs(vals) == UNION {[1..len -> vals] : len \in 1..MaxPoints}

\* ChemicalEditor::setTemperatures (lines 364-367).
SetTemperatures ==
    /\ \E values \in PointVecs(TemperatureVals), units \in TemperatureUnits :
           /\ temperatures' = setTemperatures(values, units)
           /\ requested' = [values |-> values, units |-> units]
    /\ UNCHANGED <<problem, options, x, y, z, f, result, F, L, xF, gF, gL, zL,
                   AF, AL, HF, rhs, sol, h, alpha, ilimiting, errorf, errorh,
                   error, pc, exitBy, evaluations, error0, newtonSteps, lsqInits,
                   solvers, pressures>>

\* ChemicalEditor::setPressures.
SetPressures ==
    /\ \E values \in PointVecs(PressureVals), units \in PressureUnits :
           pressures' = setPressures(values, units)
    /\ UNCHANGED <<problem, options, x, y, z, f, result, F, L, xF, gF, gL, zL,
                   AF, AL, HF, rhs, sol, h, alpha, ilimiting, errorf, errorh,
                   error, pc, exitBy, evaluations, error0, newtonSteps, lsqInits,
                   solvers, temperatures, requested>>

\* The editors an editor is assigned from: one as constructed, and one
\* whose temperatures or pressures were set.
OtherEditors ==
    {[temperatures |-> EditorImpl.temperatures, pressures |-> EditorImpl.pressures,
      requested |-> [values |-> DefaultTemperatures, units |-> "celsius"]]}
    \cup
    {[temperatures |-> setTemperatures(values, units),
      pressures |-> EditorImpl.pressures,
      requested |-> [values |-> values, units |-> units]] :
        values \in PointVecs(TemperatureVals), units \in TemperatureUnits}
    \cup
    {[temperatures |-> EditorImpl.temperatures,
      pressures |-> setPressures(values, units),
      requested |-> [values |-> DefaultTemperatures, units |-> "celsius"]] :
        values \in PointVecs(PressureVals), units \in PressureUnits}

\* ChemicalEditor::operator= (lines 358-362): the editor gets a copy of the
\* Impl of the other editor.
AssignEditor ==
    /\ \E other \in OtherEditors :
           /\ temperatures' = other.temperatures
           /\ pressures' = other.pressures
           /\ requested' = other.requested
    /\ UNCHANGED <<problem, options, x, y, z, f, result, F, L, xF, gF, gL, zL,
                   AF, AL, HF, rhs, sol, h, alpha, ilimiting, errorf, errorh,
                   error, pc, exitBy, evaluations, error0, newtonSteps, lsqInits,
                   solvers>>

InitEditor ==
    /\ problem \in ProblemsOrder
    /\ options \in OptionsOrder
    /\ x = zeros(NumVarsOrder)
    /\ y = <<>>
    /\ InitWorkspace

NextEditor ==
    \/ SetTemperatures
    \/ SetPressures
    \/ AssignEditor

SpecEditor == InitEditor /\ [][NextEditor]_vars

\* The temperatures the caller last asked for, in kelvin.
RequestedKelvin ==
    [k \in 1..Len(requested.values) |->
        convert(requested.values[k], requested.units, "kelvin")]

\* C30: the interpolation temperatures of the editor are in kelvin, after
\* construction and after every setTemperatures(values, units).
C30_TemperaturesInKelvin ==
    /\ Len(temperatures) = Len(requested.values)
    /\ \A k \in 1..Len(temperatures) : Eq(temperatures[k], RequestedKelvin[k])

====
